---- MODULE Spec2Model ----
(***************************************************************************)
(* User Task API (FastAPI + asyncpg): the users and tasks tables of        *)
(* database.py and the request handlers of main.py.  Every handler runs on *)
(* its own autocommit connection, so each SQL statement is one atomic step *)
(* and handlers interleave between their statements.                       *)
(* The created_at / updated_at columns are left out, and emails are atoms  *)
(* that all match the pattern of validate_email.                           *)
(***************************************************************************)
EXTENDS Integers, Sequences, FiniteSets, TLC

(* ---------------------------------------------------------------- bounds *)
\* users_id_seq / tasks_id_seq are not advanced past these values
MaxUserId == 2
MaxTaskId == 1
\* requests accepted in one behaviour
MaxRequests == 3

\* request slots: the requests that can be in flight at the same time
Req == {1, 2}

(* ------------------------------------------------ optional (NULL) values *)
None == <<>>
Some(v) == <<v>>
Val(o) == o[1]

(* ---------------------------------------------------------------- inputs *)
\* strings that validators look into are sequences of characters
ann == <<"a", "n", "n">>
bob == <<"b", "o", "b">>
ab == <<"a", "b">>
Usernames == {ann, bob}
Emails == {"a@x.com", "b@x.com"}
FullNames == {None, Some("Al")}
RawTaskNames == {<<" ", "b", " ">>, <<" ">>}

(* ------------------------------------------------------------ validators *)
UsernameChars == {"a", "b", "n", "o", "_", "0"}

validate_username(username) ==
    /\ Len(username) >= 3
    /\ Len(username) <= 50
    /\ \A i \in 1 .. Len(username) : username[i] \in UsernameChars

RECURSIVE lstrip(_)
lstrip(s) == IF s # <<>> /\ Head(s) = " " THEN lstrip(Tail(s)) ELSE s

RECURSIVE rstrip(_)
rstrip(s) ==
    IF s # <<>> /\ s[Len(s)] = " " THEN rstrip(SubSeq(s, 1, Len(s) - 1)) ELSE s

strip(s) == rstrip(lstrip(s))

\* validate_name: the name is rejected when it strips to nothing
validate_name_ok(name) == strip(name) # <<>>

(* ----------------------------------------------------------------- state *)
VARIABLES
    users,          \* users table: id -> [username, email, full_name]
    tasks,          \* tasks table: task_id -> [name, description, done_flag, user_id]
    users_id_seq,   \* last value of the SERIAL sequence of users.id
    tasks_id_seq,   \* last value of the SERIAL sequence of tasks.task_id
    req,            \* request slot -> the handler running in it
    accepted,       \* number of requests accepted so far
    conns           \* request slot -> connections get_db holds open for it

vars == <<users, tasks, users_id_seq, tasks_id_seq, req, accepted, conns>>

NoBody == [supplied |-> {}]

\* a slot with no request in it
Idle ==
    [op |-> "idle", pc |-> "idle", id |-> 0, body |-> NoBody, existing |-> None,
     status |-> 0, err |-> "none", resp |-> None]

\* a handler suspended before the statement pc
Running(op, id, body, pc, existing) ==
    [op |-> op, pc |-> pc, id |-> id, body |-> body, existing |-> existing,
     status |-> 0, err |-> "none", resp |-> None]

\* a handler that returned or raised: err is the exception the store or the
\* handler's own code raised, resp the row of the response body
Finished(op, id, body, status, err, resp) ==
    [op |-> op, pc |-> "done", id |-> id, body |-> body, existing |-> None,
     status |-> status, err |-> err, resp |-> resp]

Init ==
    /\ users = <<>>
    /\ tasks = <<>>
    /\ users_id_seq = 0
    /\ tasks_id_seq = 0
    /\ req = [r \in Req |-> Idle]
    /\ accepted = 0
    /\ conns = [r \in Req |-> 0]

(* ------------------------------------------------------------- the store *)
\* UNIQUE (username), UNIQUE (email): does the row (id, username, email)
\* collide with another row of the table
UniqueViolationMut(us, id, username, email) ==
    \E j \in DOMAIN us : j # id /\ us[j].username = username

UniqueViolation(us, id, username, email) ==
    \E j \in DOMAIN us :
        j # id /\ (us[j].username = username \/ us[j].email = email)

\* user_id INTEGER REFERENCES users(id)
ForeignKeyViolation(us, user_id) ==
    user_id # None /\ Val(user_id) \notin DOMAIN us

\* ... ON DELETE SET NULL: the tasks table after users row uid is deleted
OnDeleteSetNullMut(ts, uid) == ts

OnDeleteSetNull(ts, uid) ==
    [t \in DOMAIN ts |->
        IF ts[t].user_id = Some(uid) THEN [ts[t] EXCEPT !.user_id = None]
        ELSE ts[t]]

COALESCE(a, b) == IF a # None THEN a ELSE b

\* a row as fetchrow returns it (SELECT * / RETURNING *)
UserRow(us, id) ==
    [id |-> id, username |-> us[id].username, email |-> us[id].email,
     full_name |-> us[id].full_name]

TaskRow(ts, id) ==
    [task_id |-> id, name |-> ts[id].name, description |-> ts[id].description,
     done_flag |-> ts[id].done_flag, user_id |-> ts[id].user_id]

(* ------------------------------------------------------ request plumbing *)
\* the server takes a request into the first slot that is free
FreeSlot(r) ==
    /\ req[r].op = "idle"
    /\ \A q \in Req : q < r => req[q].op # "idle"

\* a request arrives, get_db connects and the handler runs up to the end of
\* its first statement
CanArrive(r) == FreeSlot(r) /\ accepted < MaxRequests

\* get_db: conn = await asyncpg.connect(DATABASE_URL), before the yield
get_db_connect(cs, r) == [cs EXCEPT ![r] = @ + 1]

\* get_db: finally: await conn.close()
get_db_closeMut(cs, r) ==
    IF req[r].status >= 400 THEN cs ELSE [cs EXCEPT ![r] = @ - 1]

get_db_close(cs, r) == [cs EXCEPT ![r] = @ - 1]

Arrive(r, rec) ==
    /\ CanArrive(r)
    /\ accepted' = accepted + 1
    /\ conns' = get_db_connect(conns, r)
    /\ req' = [req EXCEPT ![r] = rec]

\* the handler in slot r runs its next statement
Step(r, rec) ==
    /\ req' = [req EXCEPT ![r] = rec]
    /\ accepted' = accepted
    /\ conns' = conns

At(r, op, pc) == req[r].op = op /\ req[r].pc = pc

\* the response is sent and get_db closes the connection
Respond(r) ==
    /\ req[r].pc = "done"
    /\ conns' = get_db_close(conns, r)
    /\ req' = [req EXCEPT ![r] = Idle]
    /\ UNCHANGED <<users, tasks, users_id_seq, tasks_id_seq, accepted>>

(* ------------------------------------------------------- error mapping *)
\* create_user: except UniqueViolationError -> 409, except Exception -> 500
create_user_statusMut(err) ==
    IF err = "none" THEN 201 ELSE 500

create_user_status(err) ==
    IF err = "none" THEN 201
    ELSE IF err = "UniqueViolationError" THEN 409
    ELSE 500

\* every other handler: except HTTPException: raise, except Exception -> 500
handler_statusMut(err, ok) == IF err = "none" /\ ok # 200 THEN ok ELSE 500

handler_status(err, ok) == IF err = "none" THEN ok ELSE 500

\* `not update_data`, update_data = body.dict(exclude_unset=True)
NoFieldsMut(body) == FALSE

NoFields(body) == body.supplied = {}

(* ------------------------------------------------------------ get_user *)
UserPathIds == 1 .. MaxUserId

\* the answer of get_user against a users table
get_user_result(us, id) ==
    IF id \notin DOMAIN us THEN [status |-> 404, resp |-> None]
    ELSE [status |-> 200, resp |-> Some(UserRow(us, id))]

get_user(r) ==
    /\ CanArrive(r)
    /\ \E id \in UserPathIds :
           LET res == get_user_result(users, id)
           IN  Arrive(r, Finished("get_user", id, NoBody, res.status, "none",
                                  res.resp))
    /\ UNCHANGED <<users, tasks, users_id_seq, tasks_id_seq>>

(* ----------------------------------------------------------- get_users *)
\* the ids of S in ascending order (ORDER BY id, ORDER BY task_id)
OrderBy(S) ==
    [i \in 1 .. Cardinality(S) |->
        CHOOSE x \in S : Cardinality({y \in S : y < x}) = i - 1]

\* SELECT * FROM users ORDER BY id
get_users(r) ==
    /\ CanArrive(r)
    /\ LET ids == OrderBy(DOMAIN users)
       IN  Arrive(r, Finished("get_users", 0, NoBody, 200, "none",
                   Some([i \in DOMAIN ids |-> UserRow(users, ids[i])])))
    /\ UNCHANGED <<users, tasks, users_id_seq, tasks_id_seq>>

(* --------------------------------------------------------- create_user *)
UserCreateBodies ==
    [username : Usernames, email : Emails, full_name : FullNames]

\* a body whose username is too short
InvalidUserCreateBodies ==
    [username : {ab}, email : {"a@x.com"}, full_name : {None}]

\* pydantic rejects the body before the handler runs
create_user_invalid(r) ==
    /\ CanArrive(r)
    /\ \E body \in InvalidUserCreateBodies :
           /\ ~validate_username(body.username)
           /\ Arrive(r, Finished("create_user", 0, body, 422, "ValidationError",
                                 None))
    /\ UNCHANGED <<users, tasks, users_id_seq, tasks_id_seq>>

\* the row INSERT INTO users ... VALUES ($1, $2, $3) stores
InsertUserRowMut(body) ==
    [username |-> body.username, email |-> body.email, full_name |-> None]

InsertUserRow(body) ==
    [username |-> body.username, email |-> body.email,
     full_name |-> body.full_name]

\* INSERT ... RETURNING *: the sequence value is taken before the UNIQUE
\* check and is not given back when the INSERT fails
create_user_insert(r, body) ==
    LET id == users_id_seq + 1
        row == InsertUserRow(body)
    IN  /\ users_id_seq' = id
        /\ IF UniqueViolation(users, id, row.username, row.email)
           THEN /\ users' = users
                /\ Arrive(r, Finished("create_user", 0, body,
                                      create_user_status("UniqueViolationError"),
                                      "UniqueViolationError", None))
           ELSE /\ users' = users @@ (id :> row)
                /\ Arrive(r, Finished("create_user", 0, body,
                                      create_user_status("none"), "none",
                                      Some(UserRow(users', id))))

create_user(r) ==
    /\ CanArrive(r)
    /\ \E body \in UserCreateBodies :
           /\ validate_username(body.username)
           /\ users_id_seq < MaxUserId
           /\ create_user_insert(r, body)
    /\ UNCHANGED <<tasks, tasks_id_seq>>

(* --------------------------------------------------------- update_user *)
UserUpdateFields == {"username", "email", "full_name"}

\* the field sets of the update bodies: no field, one field, every field
FieldSets(fields) == {{}} \cup {{f} : f \in fields} \cup {fields}

\* a supplied username or email carries a value; full_name may be sent as null
UserUpdateBodies ==
    {[supplied |-> S,
      username |-> IF "username" \in S THEN Some(bob) ELSE None,
      email |-> IF "email" \in S THEN Some("b@x.com") ELSE None,
      full_name |-> IF "full_name" \in S THEN n ELSE None] :
        S \in FieldSets(UserUpdateFields), n \in {None, Some("Al")}}

\* `user_data.username and user_data.username != existing["username"]`
UsernameChangesMut(body, existing) == FALSE

UsernameChanges(body, existing) ==
    /\ body.username # None
    /\ Val(body.username) # <<>>
    /\ Val(body.username) # existing.username

\* `user_data.email and user_data.email != existing["email"]`
EmailChanges(body, existing) ==
    /\ body.email # None
    /\ Val(body.email) # ""
    /\ Val(body.email) # existing.email

\* SELECT * FROM users WHERE id = $1, then the check of update_data
update_user_select(r) ==
    /\ CanArrive(r)
    /\ \E id \in UserPathIds, body \in UserUpdateBodies :
           IF id \notin DOMAIN users
           THEN Arrive(r, Finished("update_user", id, body, 404, "none", None))
           ELSE IF NoFields(body)
           THEN Arrive(r, Finished("update_user", id, body, 400, "none", None))
           ELSE LET existing == UserRow(users, id)
                    pc == IF UsernameChanges(body, existing) THEN "check_username"
                          ELSE IF EmailChanges(body, existing) THEN "check_email"
                          ELSE "update"
                IN  Arrive(r, Running("update_user", id, body, pc, Some(existing)))
    /\ UNCHANGED <<users, tasks, users_id_seq, tasks_id_seq>>

\* SELECT 1 FROM users WHERE username = $1 AND id != $2
update_user_check_username(r) ==
    /\ At(r, "update_user", "check_username")
    /\ LET id == req[r].id
           body == req[r].body
       IN  IF \E j \in DOMAIN users :
                  j # id /\ users[j].username = Val(body.username)
           THEN Step(r, Finished("update_user", id, body, 409, "none", None))
           ELSE Step(r, [req[r] EXCEPT !.pc =
                           IF EmailChanges(body, Val(req[r].existing))
                           THEN "check_email" ELSE "update"])
    /\ UNCHANGED <<users, tasks, users_id_seq, tasks_id_seq>>

\* SELECT 1 FROM users WHERE email = $1 AND id != $2
update_user_check_email(r) ==
    /\ At(r, "update_user", "check_email")
    /\ LET id == req[r].id
           body == req[r].body
       IN  IF \E j \in DOMAIN users :
                  j # id /\ users[j].email = Val(body.email)
           THEN Step(r, Finished("update_user", id, body, 409, "none", None))
           ELSE Step(r, [req[r] EXCEPT !.pc = "update"])
    /\ UNCHANGED <<users, tasks, users_id_seq, tasks_id_seq>>

\* the row UPDATE users SET username = COALESCE($1, username), email =
\* COALESCE($2, email), full_name = COALESCE($3, full_name) writes over old
UpdateUserRow(old, body) ==
    [username |-> Val(COALESCE(body.username, Some(old.username))),
     email |-> Val(COALESCE(body.email, Some(old.email))),
     full_name |-> COALESCE(body.full_name, old.full_name)]

\* UPDATE users ... WHERE id = $4 RETURNING *; no row comes back when the
\* user is gone and row['id'] raises
update_user_update(r) ==
    /\ At(r, "update_user", "update")
    /\ LET id == req[r].id
           body == req[r].body
       IN  IF id \notin DOMAIN users
           THEN /\ users' = users
                /\ Step(r, Finished("update_user", id, body,
                                    handler_status("TypeError", 200),
                                    "TypeError", None))
           ELSE LET row == UpdateUserRow(users[id], body)
                IN  IF UniqueViolation(users, id, row.username, row.email)
                    THEN /\ users' = users
                         /\ Step(r, Finished("update_user", id, body,
                                    handler_status("UniqueViolationError", 200),
                                    "UniqueViolationError", None))
                    ELSE /\ users' = [users EXCEPT ![id] = row]
                         /\ Step(r, Finished("update_user", id, body,
                                    handler_status("none", 200), "none",
                                    Some(UserRow(users', id))))
    /\ UNCHANGED <<tasks, users_id_seq, tasks_id_seq>>

(* --------------------------------------------------------- delete_user *)
delete_user_select(r) ==
    /\ CanArrive(r)
    /\ \E id \in UserPathIds :
           IF id \notin DOMAIN users
           THEN Arrive(r, Finished("delete_user", id, NoBody, 404, "none", None))
           ELSE Arrive(r, Running("delete_user", id, NoBody, "check_tasks", None))
    /\ UNCHANGED <<users, tasks, users_id_seq, tasks_id_seq>>

\* SELECT 1 FROM tasks WHERE user_id = $1 LIMIT 1
delete_user_check_tasks(r) ==
    /\ At(r, "delete_user", "check_tasks")
    /\ IF \E t \in DOMAIN tasks : tasks[t].user_id = Some(req[r].id)
       THEN Step(r, Finished("delete_user", req[r].id, NoBody, 409, "none", None))
       ELSE Step(r, [req[r] EXCEPT !.pc = "delete"])
    /\ UNCHANGED <<users, tasks, users_id_seq, tasks_id_seq>>

\* DELETE FROM users WHERE id = $1; the handler returns 204 whatever the
\* number of rows deleted
delete_user_delete(r) ==
    /\ At(r, "delete_user", "delete")
    /\ LET id == req[r].id
       IN  /\ IF id \in DOMAIN users
              THEN /\ users' = [j \in DOMAIN users \ {id} |-> users[j]]
                   /\ tasks' = OnDeleteSetNull(tasks, id)
              ELSE UNCHANGED <<users, tasks>>
           /\ Step(r, Finished("delete_user", id, NoBody, 204, "none", None))
    /\ UNCHANGED <<users_id_seq, tasks_id_seq>>

(* ------------------------------------------------- get_tasks, get_task *)
TaskPathIds == 1 .. MaxTaskId

\* the rows of ts with a task_id in ids, ORDER BY task_id
TaskRows(ts, ids) ==
    LET o == OrderBy(ids)
    IN  [i \in DOMAIN o |-> TaskRow(ts, o[i])]

\* SELECT * FROM tasks ORDER BY task_id
get_tasks(r) ==
    /\ CanArrive(r)
    /\ Arrive(r, Finished("get_tasks", 0, NoBody, 200, "none",
                          Some(TaskRows(tasks, DOMAIN tasks))))
    /\ UNCHANGED <<users, tasks, users_id_seq, tasks_id_seq>>

\* SELECT * FROM tasks WHERE task_id = $1
get_task(r) ==
    /\ CanArrive(r)
    /\ \E id \in TaskPathIds :
           IF id \notin DOMAIN tasks
           THEN Arrive(r, Finished("get_task", id, NoBody, 404, "none", None))
           ELSE Arrive(r, Finished("get_task", id, NoBody, 200, "none",
                                  Some(TaskRow(tasks, id))))
    /\ UNCHANGED <<users, tasks, users_id_seq, tasks_id_seq>>

(* ------------------------------------------------------ get_user_tasks *)
\* SELECT 1 FROM users WHERE id = $1
get_user_tasks_check_user(r) ==
    /\ CanArrive(r)
    /\ \E id \in UserPathIds :
           IF id \notin DOMAIN users
           THEN Arrive(r, Finished("get_user_tasks", id, NoBody, 404, "none",
                                   None))
           ELSE Arrive(r, Running("get_user_tasks", id, NoBody, "select", None))
    /\ UNCHANGED <<users, tasks, users_id_seq, tasks_id_seq>>

\* SELECT * FROM tasks WHERE user_id = $1 ORDER BY task_id
get_user_tasks_select(r) ==
    /\ At(r, "get_user_tasks", "select")
    /\ Step(r, Finished("get_user_tasks", req[r].id, NoBody, 200, "none",
            Some(TaskRows(tasks, {t \in DOMAIN tasks :
                                     tasks[t].user_id = Some(req[r].id)}))))
    /\ UNCHANGED <<users, tasks, users_id_seq, tasks_id_seq>>

(* --------------------------------------------------------- create_task *)

\* user_id values of a body: 0 and -1 never name a row (SERIAL starts at 1)
BodyUserIds == {Some(u) : u \in (-1) .. MaxUserId}

\* description and done_flag are left to their defaults
RawTaskCreateBodies ==
    [name : RawTaskNames, description : {None}, done_flag : {FALSE},
     user_id : {None} \cup BodyUserIds]

\* `if task_data.user_id:` is false for None and for 0
Truthy(user_id) == user_id # None /\ Val(user_id) # 0

\* pydantic rejects the body before the handler runs
create_task_invalid(r) ==
    /\ CanArrive(r)
    /\ \E raw \in RawTaskCreateBodies :
           /\ ~validate_name_ok(raw.name)
           /\ raw.user_id = None
           /\ Arrive(r, Finished("create_task", 0, raw, 422, "ValidationError",
                                 None))
    /\ UNCHANGED <<users, tasks, users_id_seq, tasks_id_seq>>

\* INSERT INTO tasks (name, description, done_flag, user_id) ... RETURNING *
\* the tasks table it leaves and the handler's answer; the sequence value is
\* taken in either case
create_task_insert(body) ==
    LET id == tasks_id_seq + 1
    IN  IF ForeignKeyViolation(users, body.user_id)
        THEN [tasks |-> tasks,
              rec |-> Finished("create_task", 0, body,
                          handler_status("ForeignKeyViolationError", 201),
                          "ForeignKeyViolationError", None)]
        ELSE [tasks |-> tasks @@ (id :> body),
              rec |-> Finished("create_task", 0, body,
                          handler_status("none", 201), "none",
                          Some(TaskRow(tasks @@ (id :> body), id)))]

\* INSERTs of create_task not yet executed
PendingTaskInserts ==
    Cardinality({q \in Req : At(q, "create_task", "insert")})

\* with a user_id: SELECT 1 FROM users WHERE id = $1
create_task_check_user(r) ==
    /\ CanArrive(r)
    /\ \E raw \in RawTaskCreateBodies :
           /\ validate_name_ok(raw.name)
           /\ Truthy(raw.user_id)
           /\ tasks_id_seq + PendingTaskInserts < MaxTaskId
           /\ LET body == [raw EXCEPT !.name = strip(raw.name)]
              IN  IF Val(body.user_id) \notin DOMAIN users
                  THEN Arrive(r, Finished("create_task", 0, body, 422, "none",
                                          None))
                  ELSE Arrive(r, Running("create_task", 0, body, "insert", None))
    /\ UNCHANGED <<users, tasks, users_id_seq, tasks_id_seq>>

\* without a user_id (or with 0) the INSERT is the first statement
create_task_first_insert(r) ==
    /\ CanArrive(r)
    /\ \E raw \in RawTaskCreateBodies :
           /\ validate_name_ok(raw.name)
           /\ ~Truthy(raw.user_id)
           /\ tasks_id_seq + PendingTaskInserts < MaxTaskId
           /\ LET res == create_task_insert(
                              [raw EXCEPT !.name = strip(raw.name)])
              IN  /\ tasks_id_seq' = tasks_id_seq + 1
                  /\ tasks' = res.tasks
                  /\ Arrive(r, res.rec)
    /\ UNCHANGED <<users, users_id_seq>>

create_task_later_insert(r) ==
    /\ At(r, "create_task", "insert")
    /\ LET res == create_task_insert(req[r].body)
       IN  /\ tasks_id_seq' = tasks_id_seq + 1
           /\ tasks' = res.tasks
           /\ Step(r, res.rec)
    /\ UNCHANGED <<users, users_id_seq>>

(* --------------------------------------------------------- update_task *)
TaskUpdateFields == {"name", "description", "done_flag", "user_id"}

\* name, description and done_flag are absent or carry a value; user_id is
\* absent, null or an id
TaskUpdateBodies ==
    {[supplied |-> S,
      name |-> IF "name" \in S THEN Some(<<"c">>) ELSE None,
      description |-> IF "description" \in S THEN Some("e") ELSE None,
      done_flag |-> IF "done_flag" \in S THEN Some(TRUE) ELSE None,
      user_id |-> IF "user_id" \in S THEN u ELSE None] :
        S \in FieldSets(TaskUpdateFields), u \in {None} \cup BodyUserIds}

\* `task_data.user_id is not None and task_data.user_id != existing["user_id"]`
\* and then `if task_data.user_id:`
UserIdNeedsCheck(body, existing) ==
    /\ body.user_id # None
    /\ body.user_id # existing.user_id
    /\ Truthy(body.user_id)

\* SELECT * FROM tasks WHERE task_id = $1, then the check of update_data
update_task_select(r) ==
    /\ CanArrive(r)
    /\ \E id \in TaskPathIds, raw \in TaskUpdateBodies :
           /\ raw.name # None => validate_name_ok(Val(raw.name))
           /\ LET body == IF raw.name = None THEN raw
                          ELSE [raw EXCEPT !.name = Some(strip(Val(raw.name)))]
              IN  IF id \notin DOMAIN tasks
                  THEN Arrive(r, Finished("update_task", id, body, 404, "none",
                                          None))
                  ELSE IF NoFields(body)
                  THEN Arrive(r, Finished("update_task", id, body, 400, "none",
                                          None))
                  ELSE LET existing == TaskRow(tasks, id)
                       IN  Arrive(r, Running("update_task", id, body,
                                     IF UserIdNeedsCheck(body, existing)
                                     THEN "check_user" ELSE "update",
                                     Some(existing)))
    /\ UNCHANGED <<users, tasks, users_id_seq, tasks_id_seq>>

\* SELECT 1 FROM users WHERE id = $1
update_task_check_user(r) ==
    /\ At(r, "update_task", "check_user")
    /\ IF Val(req[r].body.user_id) \notin DOMAIN users
       THEN Step(r, Finished("update_task", req[r].id, req[r].body, 422, "none",
                             None))
       ELSE Step(r, [req[r] EXCEPT !.pc = "update"])
    /\ UNCHANGED <<users, tasks, users_id_seq, tasks_id_seq>>

\* the row UPDATE tasks SET name = COALESCE($1, name), description =
\* COALESCE($2, description), done_flag = COALESCE($3, done_flag),
\* user_id = $4 writes over row old
UpdateTaskRow(old, body) ==
    [name |-> Val(COALESCE(body.name, Some(old.name))),
     description |-> COALESCE(body.description, old.description),
     done_flag |-> Val(COALESCE(body.done_flag, Some(old.done_flag))),
     user_id |-> body.user_id]

\* UPDATE tasks ... WHERE task_id = $5 RETURNING *; no row comes back when
\* the task is gone and row['task_id'] raises
update_task_update(r) ==
    /\ At(r, "update_task", "update")
    /\ LET id == req[r].id
           body == req[r].body
       IN  IF id \notin DOMAIN tasks
           THEN /\ tasks' = tasks
                /\ Step(r, Finished("update_task", id, body,
                                    handler_status("TypeError", 200),
                                    "TypeError", None))
           ELSE IF ForeignKeyViolation(users, body.user_id)
           THEN /\ tasks' = tasks
                /\ Step(r, Finished("update_task", id, body,
                                    handler_status("ForeignKeyViolationError", 200),
                                    "ForeignKeyViolationError", None))
           ELSE /\ tasks' = [tasks EXCEPT ![id] = UpdateTaskRow(tasks[id], body)]
                /\ Step(r, Finished("update_task", id, body,
                                    handler_status("none", 200), "none",
                                    Some(TaskRow(tasks', id))))
    /\ UNCHANGED <<users, users_id_seq, tasks_id_seq>>

(* --------------------------------------------------------- delete_task *)
delete_task_select(r) ==
    /\ CanArrive(r)
    /\ \E id \in TaskPathIds :
           IF id \notin DOMAIN tasks
           THEN Arrive(r, Finished("delete_task", id, NoBody, 404, "none", None))
           ELSE Arrive(r, Running("delete_task", id, NoBody, "delete", None))
    /\ UNCHANGED <<users, tasks, users_id_seq, tasks_id_seq>>

\* DELETE FROM tasks WHERE task_id = $1; 204 whatever was deleted
delete_task_delete(r) ==
    /\ At(r, "delete_task", "delete")
    /\ tasks' = [t \in DOMAIN tasks \ {req[r].id} |-> tasks[t]]
    /\ Step(r, Finished("delete_task", req[r].id, NoBody, 204, "none", None))
    /\ UNCHANGED <<users, users_id_seq, tasks_id_seq>>

(* ------------------------------------------------------- specification *)
Next ==
    \E r \in Req :
        \/ get_users(r)
        \/ get_user(r)
        \/ get_tasks(r)
        \/ get_task(r)
        \/ get_user_tasks_check_user(r)
        \/ get_user_tasks_select(r)
        \/ create_user_invalid(r)
        \/ create_user(r)
        \/ update_user_select(r)
        \/ update_user_check_username(r)
        \/ update_user_check_email(r)
        \/ update_user_update(r)
        \/ delete_user_select(r)
        \/ delete_user_check_tasks(r)
        \/ delete_user_delete(r)
        \/ create_task_invalid(r)
        \/ create_task_check_user(r)
        \/ create_task_first_insert(r)
        \/ create_task_later_insert(r)
        \/ update_task_select(r)
        \/ update_task_check_user(r)
        \/ update_task_update(r)
        \/ delete_task_select(r)
        \/ delete_task_delete(r)
        \/ Respond(r)

Spec == Init /\ [][Next]_vars

(* ------------------------------------------- one request at a time *)
\* The same handlers with a single slot: a request arrives only after the
\* one before it was answered, so no statement of another request falls
\* between two statements of a handler.
NextSeq ==
    \E r \in {1} :
        \/ get_users(r)
        \/ get_user(r)
        \/ get_tasks(r)
        \/ get_task(r)
        \/ get_user_tasks_check_user(r)
        \/ get_user_tasks_select(r)
        \/ create_user_invalid(r)
        \/ create_user(r)
        \/ update_user_select(r)
        \/ update_user_check_username(r)
        \/ update_user_check_email(r)
        \/ update_user_update(r)
        \/ delete_user_select(r)
        \/ delete_user_check_tasks(r)
        \/ delete_user_delete(r)
        \/ create_task_invalid(r)
        \/ create_task_check_user(r)
        \/ create_task_first_insert(r)
        \/ create_task_later_insert(r)
        \/ update_task_select(r)
        \/ update_task_check_user(r)
        \/ update_task_update(r)
        \/ delete_task_select(r)
        \/ delete_task_delete(r)
        \/ Respond(r)

SpecSeq == Init /\ [][NextSeq]_vars

(* --------------------------------------- two creates of one username *)
\* Two create_user requests carrying RaceUsername against a store that may
\* already hold one other user; the two slots keep both answers.
RaceUsername == ann

RaceStores ==
    {<<>>} \cup {<<[username |-> bob, email |-> e, full_name |-> n]>> :
                    e \in Emails, n \in FullNames}

\* the sequence may be one ahead of the rows: a refused INSERT took a value
InitRace ==
    /\ users \in RaceStores
    /\ users_id_seq \in {Len(users), Len(users) + 1}
    /\ tasks = <<>>
    /\ tasks_id_seq = 0
    /\ req = [r \in Req |-> Idle]
    /\ accepted = 0
    /\ conns = [r \in Req |-> 0]

create_user_race(r) ==
    /\ FreeSlot(r)
    /\ \E body \in UserCreateBodies :
           /\ body.username = RaceUsername
           /\ validate_username(body.username)
           /\ create_user_insert(r, body)
    /\ UNCHANGED <<tasks, tasks_id_seq>>

NextRace == \E r \in Req : create_user_race(r)

SpecRace == InitRace /\ [][NextRace]_vars

(* ============================== claims ================================ *)
Updates == {"update_user", "update_task"}
Deletes == {"delete_user", "delete_task"}

\* the request in slot r returns or raises in this step
Finishes(r) == req[r].pc # "done" /\ req'[r].pc = "done"

\* the table a request's path id names a row of
TargetExists(op, id, us, ts) ==
    IF op \in {"update_user", "delete_user", "get_user"} THEN id \in DOMAIN us
    ELSE id \in DOMAIN ts

\* C1: an update_task that succeeds leaves every field its body does not
\* supply as it was stored, user_id included.
C1_AbsentFieldsKept ==
    [][\A r \in Req :
         (At(r, "update_task", "update") /\ Finishes(r) /\ req'[r].status = 200)
         => \A f \in TaskUpdateFields \ req[r].body.supplied :
                tasks'[req[r].id][f] = tasks[req[r].id][f]]_vars

\* C2: no two distinct live users share a username, and no two share an email.
C2_UsersUnique ==
    \A i, j \in DOMAIN users :
        i # j => /\ users[i].username # users[j].username
                 /\ users[i].email # users[j].email

\* two live users, and a user write that was refused for a duplicate
C2_Witness ==
    /\ Cardinality(DOMAIN users) = 2
    /\ \E r \in Req : /\ req[r].op \in {"create_user", "update_user"}
                      /\ req[r].status = 409

\* an email held by a user other than the ones the two requests create
HeldByOther(email) ==
    \E j \in DOMAIN users :
        users[j].username # RaceUsername /\ users[j].email = email

BothDone == \A r \in Req : req[r].pc = "done"

OneWinner ==
    /\ \E w, l \in Req :
           w # l /\ req[w].status = 201 /\ req[l].status = 409
    /\ Cardinality({j \in DOMAIN users : users[j].username = RaceUsername}) = 1

\* C3 as stated: once both requests of one username are answered, one was
\* answered 201 and the other 409, whatever their emails.
C3_OneWinnerAnyEmails == BothDone => OneWinner

\* C3, amended: when neither request's email is held by another user, one of
\* the two requests is answered 201 and the other 409, and one row carries the
\* username; no request is answered 500.
C3_OneWinner ==
    /\ \A r \in Req : req[r].pc = "done" => req[r].status \in {201, 409}
    /\ (BothDone /\ \A r \in Req : ~HeldByOther(req[r].body.email))
       => OneWinner

\* both answered, with different emails that no other user holds
C3_Witness ==
    /\ BothDone
    /\ \A r \in Req : ~HeldByOther(req[r].body.email)
    /\ req[1].body.email # req[2].body.email
    /\ req[1].status = 201 /\ req[2].status = 409

\* C4: a user write the unique constraint rejects is answered 409.
C4_UniqueViolationIs409 ==
    \A r \in Req : req[r].err = "UniqueViolationError" => req[r].status = 409

\* C5: an update_task of an existing task whose body carries a user_id that
\* names no user is answered 422 and changes no task.
C5_DanglingUpdateIs422 ==
    [][\A r \in Req :
         (/\ Finishes(r)
          /\ req'[r].op = "update_task"
          /\ req'[r].id \in DOMAIN tasks
          /\ req'[r].body.user_id # None
          /\ Val(req'[r].body.user_id) \notin DOMAIN users)
         => req'[r].status = 422 /\ tasks' = tasks]_vars

\* C6: a create_task with a valid name whose user_id names no user is
\* answered 422 and inserts no task.
C6_DanglingCreateIs422 ==
    [][\A r \in Req :
         (/\ Finishes(r)
          /\ req'[r].op = "create_task"
          /\ req'[r].err # "ValidationError"
          /\ req'[r].body.user_id # None
          /\ Val(req'[r].body.user_id) \notin DOMAIN users)
         => req'[r].status = 422 /\ tasks' = tasks]_vars

\* C7: a delete answered 204 removed the row in that step, and a delete of
\* an id whose row does not exist is answered 404.
C7_DeleteMissingIs404 ==
    [][\A r \in Req :
         (Finishes(r) /\ req'[r].op \in Deletes)
         => LET op == req'[r].op
                id == req'[r].id
            IN  /\ req'[r].status = 204
                   => /\ TargetExists(op, id, users, tasks)
                      /\ ~TargetExists(op, id, users', tasks')
                /\ ~TargetExists(op, id, users, tasks)
                   => req'[r].status = 404]_vars

\* C8 as stated: an update whose body supplies no field is answered 400,
\* whatever the target id.
C8_EmptyUpdateIs400 ==
    \A r \in Req :
        (/\ req[r].op \in Updates
         /\ req[r].pc = "done"
         /\ req[r].body.supplied = {})
        => req[r].status = 400

\* C8, amended: an update whose body supplies no field is answered in its
\* first step, 400 when the target row exists and 404 when it does not, and
\* the tables stay as they were.
C8_EmptyUpdateIs400Or404 ==
    [][\A r \in Req :
         (/\ req[r].op = "idle"
          /\ req'[r].op \in Updates
          /\ req'[r].body.supplied = {})
         => /\ req'[r].pc = "done"
            /\ req'[r].status =
                  IF TargetExists(req'[r].op, req'[r].id, users, tasks)
                  THEN 400 ELSE 404
            /\ users' = users
            /\ tasks' = tasks]_vars

\* empty updates of an existing user and of an existing task, answered 400
C8_Witness ==
    \E r \in Req :
        /\ req[r].op \in Updates
        /\ req[r].pc = "done"
        /\ req[r].body.supplied = {}
        /\ TargetExists(req[r].op, req[r].id, users, tasks)
        /\ req[r].status = 400

\* C9: every task whose user_id is not null references a live user.
C9_ReferentialIntegrity ==
    \A t \in DOMAIN tasks :
        tasks[t].user_id # None => Val(tasks[t].user_id) \in DOMAIN users

\* a task was created for a user while a delete_user of that user was past
\* its checks: the delete went through and the task's user_id is null
C9_Witness ==
    \E r, q \in Req :
        /\ req[r].op = "create_task" /\ req[r].status = 201
        /\ req[r].body.user_id # None
        /\ req[q].op = "delete_user" /\ req[q].status = 204
        /\ req[q].id = Val(req[r].body.user_id)
        /\ tasks # <<>>
        /\ \A t \in DOMAIN tasks : tasks[t].user_id = None

\* C10: a create_user whose username and email no live user holds is
\* answered 201 with a new id, and get_user on that id, run on the table the
\* INSERT left, returns the row of the create response, which carries the
\* username, email and full_name of the input.
C10_CreateGetRoundTrip ==
    [][\A r \in Req :
         (/\ Finishes(r)
          /\ req'[r].op = "create_user"
          /\ req'[r].err # "ValidationError"
          /\ \A j \in DOMAIN users :
                 /\ users[j].username # req'[r].body.username
                 /\ users[j].email # req'[r].body.email)
         => /\ req'[r].status = 201
            /\ req'[r].resp # None
            /\ LET row == Val(req'[r].resp)
                   body == req'[r].body
               IN  /\ row.id \notin DOMAIN users
                   /\ get_user_result(users', row.id) =
                          [status |-> 200, resp |-> Some(row)]
                   /\ row.username = body.username
                   /\ row.email = body.email
                   /\ row.full_name = body.full_name]_vars

\* a created user with a full_name that get_user returns as the create did
C10_Witness ==
    \E r \in Req :
        /\ req[r].op = "create_user"
        /\ req[r].status = 201
        /\ req[r].body.full_name # None
        /\ get_user_result(users, Val(req[r].resp).id).resp = req[r].resp

\* C11: a request in flight holds exactly one connection and a slot with no
\* request holds none, so no connection is open when no request is in flight.
C11_OneConnectionPerRequest ==
    \A r \in Req : conns[r] = IF req[r].op = "idle" THEN 0 ELSE 1

\* a request answered 500 still holds its connection, next to a slot whose
\* request was answered and whose connection is closed
C11_Witness ==
    \E r, q \in Req :
        /\ req[r].pc = "done" /\ req[r].status = 500 /\ conns[r] = 1
        /\ req[q].op = "idle" /\ conns[q] = 0
        /\ accepted >= 2

\* field f of an update_user body carries the value another live user holds
HeldByAnother(body, f, id) ==
    /\ body[f] # None
    /\ \E j \in DOMAIN users : j # id /\ users[j][f] = Val(body[f])

\* field f of an update_user body carries the target's own stored value
OwnValue(body, f, id) == body[f] # None /\ users[id][f] = Val(body[f])

\* C12: with requests run one at a time, an update_user of an existing user
\* whose body carries a username or email that another live user holds is
\* answered 409 and changes no user row; one that carries the target's own
\* username or email, and no value of another user, is answered 200.
C12_UniqueExcludingSelf ==
    [][\A r \in Req :
         (/\ Finishes(r)
          /\ req'[r].op = "update_user"
          /\ req'[r].id \in DOMAIN users)
         => LET id == req'[r].id
                body == req'[r].body
                taken == \/ HeldByAnother(body, "username", id)
                         \/ HeldByAnother(body, "email", id)
                own == \/ OwnValue(body, "username", id)
                       \/ OwnValue(body, "email", id)
            IN  /\ taken => req'[r].status = 409 /\ users' = users
                /\ (~taken /\ own) => req'[r].status = 200]_vars

\* an update_user that carried another user's username and one of its own
\* fields, answered 409
C12_Witness ==
    \E r \in Req :
        /\ req[r].op = "update_user" /\ req[r].status = 409
        /\ req[r].id \in DOMAIN users
        /\ HeldByAnother(req[r].body, "username", req[r].id)
        /\ OwnValue(req[r].body, "email", req[r].id)

\* some task is assigned to user uid
Referenced(ts, uid) == \E t \in DOMAIN ts : ts[t].user_id = Some(uid)

\* C13: a delete_user never alters a task, and one that finds its user
\* referenced by a task answers 409 and leaves the user and every task as
\* they were, however create_task and update_task requests interleave.
C13_DeleteUserKeepsTasks ==
    [][\A r \in Req :
         (Finishes(r) /\ req'[r].op = "delete_user")
         => /\ tasks' = tasks
            /\ (/\ req'[r].id \in DOMAIN users
                /\ Referenced(tasks, req'[r].id))
               => req'[r].status = 409 /\ users' = users]_vars

Reads == {"get_users", "get_user", "get_tasks", "get_task", "get_user_tasks"}
Errors == {400, 404, 409, 422, 500}

\* C14: the user rows and the task rows change only in the step that answers
\* a create, update or delete with a success status; a request answered with
\* 400, 404, 409, 422 or 500, and every read, leaves both tables as they were
\* in each of its steps.
C14_FailuresAndReadsKeepStore ==
    [][/\ (users' # users \/ tasks' # tasks)
          => \E r \in Req : /\ Finishes(r)
                            /\ req'[r].op \notin Reads
                            /\ req'[r].status \in {200, 201, 204}
       /\ \A r \in Req :
            (req'[r] # req[r] /\ req'[r].op \in Reads)
            => users' = users /\ tasks' = tasks
       /\ \A r \in Req :
            (Finishes(r) /\ req'[r].status \in Errors)
            => users' = users /\ tasks' = tasks]_vars

C14_Witness ==
    \E r, q \in Req :
        /\ req[r].pc = "done" /\ req[r].op = "create_task"
        /\ req[r].status = 500 /\ req[r].err = "ForeignKeyViolationError"
        /\ req[q].pc = "done" /\ req[q].op = "get_user_tasks"
        /\ req[q].status = 200
        /\ users # <<>>

====
